---- MODULE Spec2Model ----
(***************************************************************************)
(* Two-stage Terraform troubleshooting workflow.                           *)
(*   stage one: fetch-error-code-details.py   (Diagnosis Request Handler)  *)
(*   stage two: terraform-troubleshooting.py  (Troubleshooting Handler)    *)
(*                                                                         *)
(* Text is a sequence of one-character strings, so that split, splitlines, *)
(* join, lower, endswith and substring search are computed as the Python   *)
(* code computes them.  Fixed message literals are single multi-character  *)
(* atoms inside such a sequence.  Python's None is the value None below.   *)
(***************************************************************************)
EXTENDS Integers, Sequences, FiniteSets, TLC

VARIABLES
    \* Log Error Extractor, standalone
    log_content, context_lines, extracted, xpc,
    \* Identifier Resolver, standalone
    ref, resolved, rpc,
    \* stage one: Diagnosis Request Handler and what it calls
    pc,             \* position of the handler: the remote call it issues next
    event,          \* the invocation event
    files_content,  \* lambda_handler's files_content
    bundle,         \* fetch_files_from_gitlab's files_content, while it runs
    tree,           \* the tree listing fetch_files_from_gitlab iterates over
    idx,            \* position of its for loop in the listing
    target,         \* (workspace_name, org_name, run_id) of the handler
    latest_run,     \* the run record get_latest_run_error inspects
    platform,       \* what the platform serves for the run's plan and apply
    requests,       \* every remote call issued so far, in order
    error_message,  \* lambda_handler's error_message
    response,       \* what lambda_handler returned
    \* stage two: Troubleshooting Request Handler
    s2pc,           \* position of the handler: the remote call it issues next
    s2event,        \* the invocation event: its keys and its parameter list
    s2reply,        \* what the call to stage one gave
    s2bedrock,      \* what the inference endpoint gave
    s2result        \* the envelope returned, or the exception raised

extractVars == <<log_content, context_lines, extracted, xpc>>
resolveVars == <<ref, resolved, rpc>>
stageOneVars == <<pc, event, files_content, bundle, tree, idx, target, latest_run,
                  platform, requests, error_message, response>>
stageTwoVars == <<s2pc, s2event, s2reply, s2bedrock, s2result>>
vars == <<extractVars, resolveVars, stageOneVars, stageTwoVars>>

----------------------------------------------------------------------------
\* Bounds of the model
MaxLines == 3
MaxWindow == 2

\* context_lines=5, the default window of extract_error_with_context
DefaultContextLines == 5

----------------------------------------------------------------------------
\* Generic text helpers

None == <<"None">>

Truthy(x) == x # None /\ x # <<>>

Min(a, b) == IF a < b THEN a ELSE b

UpperAlphabet ==
    <<"A", "B", "C", "D", "E", "F", "G", "H", "I", "J", "K", "L", "M",
      "N", "O", "P", "Q", "R", "S", "T", "U", "V", "W", "X", "Y", "Z">>

LowerAlphabet ==
    <<"a", "b", "c", "d", "e", "f", "g", "h", "i", "j", "k", "l", "m",
      "n", "o", "p", "q", "r", "s", "t", "u", "v", "w", "x", "y", "z">>

\* str.lower() on one character
LowerChar(c) ==
    IF \E k \in 1..Len(UpperAlphabet) : UpperAlphabet[k] = c
    THEN LowerAlphabet[CHOOSE k \in 1..Len(UpperAlphabet) : UpperAlphabet[k] = c]
    ELSE c

\* str.lower()
Lower(s) == [k \in 1..Len(s) |-> LowerChar(s[k])]

\* keyword in line
Contains(s, kw) ==
    \E k \in 1..(Len(s) - Len(kw) + 1) : SubSeq(s, k, k + Len(kw) - 1) = kw

\* str.endswith
EndsWith(s, suffix) ==
    /\ Len(suffix) <= Len(s)
    /\ SubSeq(s, Len(s) - Len(suffix) + 1, Len(s)) = suffix

RECURSIVE SplitLoop(_, _, _, _, _)
SplitLoop(s, sep, k, cur, acc) ==
    IF k > Len(s) THEN Append(acc, cur)
    ELSE IF s[k] = sep THEN SplitLoop(s, sep, k + 1, <<>>, Append(acc, cur))
    ELSE SplitLoop(s, sep, k + 1, Append(cur, s[k]), acc)

\* str.split(sep) for a one-character separator
Split(s, sep) == SplitLoop(s, sep, 1, <<>>, <<>>)

RECURSIVE SplitLinesLoop(_, _, _, _)
SplitLinesLoop(s, k, cur, acc) ==
    IF k > Len(s) THEN (IF cur = <<>> THEN acc ELSE Append(acc, cur))
    ELSE IF s[k] = "\r" /\ k < Len(s) /\ s[k + 1] = "\n"
         THEN SplitLinesLoop(s, k + 2, <<>>, Append(acc, cur))
    ELSE IF s[k] \in {"\n", "\r"}
         THEN SplitLinesLoop(s, k + 1, <<>>, Append(acc, cur))
    ELSE SplitLinesLoop(s, k + 1, Append(cur, s[k]), acc)

\* str.splitlines(): line breaks are dropped, a final break adds no line
SplitLines(s) == SplitLinesLoop(s, 1, <<>>, <<>>)

RECURSIVE Join(_, _)
\* sep.join(parts)
Join(parts, sep) ==
    IF parts = <<>> THEN <<>>
    ELSE IF Len(parts) = 1 THEN parts[1]
    ELSE parts[1] \o sep \o Join(Tail(parts), sep)

RECURSIVE SeqsUpTo(_, _)
\* all sequences over S of length at most n
SeqsUpTo(S, n) ==
    IF n = 0 THEN {<<>>}
    ELSE LET shorter == SeqsUpTo(S, n - 1)
         IN shorter \cup {Append(q, x) : q \in shorter, x \in S}

----------------------------------------------------------------------------
\* Log Error Extractor: extract_error_with_context

KwLevel ==
    <<"\"", "@", "l", "e", "v", "e", "l", "\"", ":", "\"", "e", "r", "r", "o", "r", "\"">>

KwError ==
    <<"e", "r", "r", "o", "r", ":">>

\* the keyword list of the scan
Keywords == {KwLevel, KwError}

\* any(keyword in line.lower() for keyword in [...])
IsErrorLine(line) == \E kw \in Keywords : Contains(Lower(line), kw)

\* a plausible slip: the window ends one line early
EndIndexShort(i, window, n) == Min(i + window - 1, n)

\* end_index = min(i + context_lines + 1, len(log_lines)), as the last line
\* taken (1-based, inclusive) for the marking line at 1-based position i
EndIndex(i, window, n) == Min(i + window, n)

RECURSIVE ExtractLoop(_, _, _, _)
\* the for loop: extend with the window, then append the blank separator
ExtractLoop(log_lines, i, window, acc) ==
    IF i > Len(log_lines) THEN acc
    ELSE IF IsErrorLine(log_lines[i])
         THEN ExtractLoop(log_lines, i + 1, window,
                  Append(acc \o SubSeq(log_lines, i, EndIndex(i, window, Len(log_lines))),
                         <<>>))
    ELSE ExtractLoop(log_lines, i + 1, window, acc)

extract_error_with_context(text, window) ==
    Join(ExtractLoop(SplitLines(text), 1, window, <<>>), <<"\n">>)

\* Lines the standalone extractor is run on
LineAtLevel ==
    <<"{", "\"", "@", "l", "e", "v", "e", "l", "\"", ":", "\"", "e", "r", "r", "o", "r", "\"", "}">>

LinePlainLevel ==
    <<"{", "\"", "l", "e", "v", "e", "l", "\"", ":", "\"", "e", "r", "r", "o", "r", "\"", "}">>

LineUpperError ==
    <<"E", "r", "r", "o", "r", ":", " ", "x">>

LineUpperLevel ==
    <<"\"", "@", "L", "E", "V", "E", "L", "\"", ":", "\"", "E", "R", "R", "O", "R", "\"">>

LineOk ==
    <<"o", "k">>

LineNoColon ==
    <<"e", "r", "r", "o", "r">>

CandLines ==
    {LineAtLevel, LinePlainLevel, LineUpperError, LineUpperLevel, LineOk, LineNoColon, <<>>}

SevenLineLog ==
    <<"{", "\"", "@", "l", "e", "v", "e", "l", "\"", ":", "\"", "e", "r", "r", "o", "r", "\"",
      ",", "\"", "m", "s", "g", "\"", ":", "\"", "x", "\"", "}", "\n",
      "l", "i", "n", "e", "2", "\n", "l", "i", "n", "e", "3", "\n",
      "l", "i", "n", "e", "4", "\n", "l", "i", "n", "e", "5", "\n",
      "l", "i", "n", "e", "6", "\n", "l", "i", "n", "e", "7">>

CrLfLog ==
    <<"E", "r", "r", "o", "r", ":", " ", "a", "\r", "\n", "b", "\r", "\n">>

ExtractLogs ==
    {Join(ls, <<"\n">>) : ls \in SeqsUpTo(CandLines, MaxLines)}
        \cup {SevenLineLog, CrLfLog, LineUpperError \o <<"\n">>}

Windows == (0..MaxWindow) \cup {DefaultContextLines}

ExtractIdle ==
    /\ log_content = <<>>
    /\ context_lines = DefaultContextLines
    /\ extracted = <<>>
    /\ xpc = "idle"

InitExtract ==
    /\ log_content \in ExtractLogs
    /\ context_lines \in Windows
    /\ extracted = <<>>
    /\ xpc = "ready"

Extract ==
    /\ xpc = "ready"
    /\ extracted' = extract_error_with_context(log_content, context_lines)
    /\ xpc' = "done"
    /\ UNCHANGED <<log_content, context_lines>>
    /\ UNCHANGED <<resolveVars, stageOneVars, stageTwoVars>>

----------------------------------------------------------------------------
\* Identifier Resolver: get_workspace_id_from_url

Organizations ==
    <<"o", "r", "g", "a", "n", "i", "z", "a", "t", "i", "o", "n", "s">>

Workspaces ==
    <<"w", "o", "r", "k", "s", "p", "a", "c", "e", "s">>

Runs ==
    <<"r", "u", "n", "s">>

Acme ==
    <<"a", "c", "m", "e">>

Prod ==
    <<"p", "r", "o", "d">>

RunOne ==
    <<"r", "u", "n", "-", "1">>

PrefixApp ==
    <<"h", "t", "t", "p", "s", ":", "/", "/", "h", "/", "a", "p", "p">>

Slash == <<"/">>

\* .../organizations/ORG/workspaces/WS[/runs/RUN]
WorkspaceUrl(r) ==
    r.prefix \o Slash \o Organizations \o Slash \o r.org \o Slash \o Workspaces
        \o Slash \o r.ws
        \o (IF r.run_scoped THEN Slash \o Runs \o Slash \o r.run ELSE <<>>)

\* parts[-k]; Python raises IndexError when k > len(parts)
FromEnd(parts, k) == parts[Len(parts) - k + 1]

IndexError == [raised |-> "IndexError", workspace_name |-> None, org_name |-> None, run_id |-> None]

Resolved(ws, org, run) ==
    [raised |-> "", workspace_name |-> ws, org_name |-> org, run_id |-> run]

\* 'runs' in parts
HasRunsSegment(parts) == \E k \in 1..Len(parts) : parts[k] = Runs

\* a plausible slip: the organization taken one position too far right
ResolveOrgOffByOne(workspace_url) ==
    LET parts == Split(workspace_url, "/")
    IN IF HasRunsSegment(parts)
       THEN IF Len(parts) < 5 THEN IndexError
            ELSE Resolved(FromEnd(parts, 3), FromEnd(parts, 4), FromEnd(parts, 1))
       ELSE IF Len(parts) < 3 THEN IndexError
            ELSE Resolved(FromEnd(parts, 1), FromEnd(parts, 2), None)

get_workspace_id_from_url(workspace_url) ==
    LET parts == Split(workspace_url, "/")
    IN IF HasRunsSegment(parts)
       THEN IF Len(parts) < 5 THEN IndexError
            ELSE Resolved(FromEnd(parts, 3), FromEnd(parts, 5), FromEnd(parts, 1))
       ELSE IF Len(parts) < 3 THEN IndexError
            ELSE Resolved(FromEnd(parts, 1), FromEnd(parts, 3), None)

OrgNames == {Acme, Runs, <<"o">>}
WsNames == {Prod, Runs, Acme, <<"w">>}
RunIds == {RunOne, Runs, <<"r">>}
Prefixes == {PrefixApp, <<>>, <<"h">> \o Slash \o Runs}

Refs == [prefix : Prefixes, org : OrgNames, ws : WsNames, run : RunIds, run_scoped : BOOLEAN]

ResolveIdle ==
    /\ ref = [prefix |-> <<>>, org |-> Acme, ws |-> Prod, run |-> RunOne, run_scoped |-> FALSE]
    /\ resolved = Resolved(None, None, None)
    /\ rpc = "idle"

InitResolve ==
    /\ ref \in Refs
    /\ resolved = Resolved(None, None, None)
    /\ rpc = "ready"

Resolve ==
    /\ rpc = "ready"
    /\ resolved' = get_workspace_id_from_url(WorkspaceUrl(ref))
    /\ rpc' = "done"
    /\ UNCHANGED ref
    /\ UNCHANGED <<extractVars, stageOneVars, stageTwoVars>>

----------------------------------------------------------------------------
\* Stage one: Repository Fetcher, Run Diagnoser, Diagnosis Request Handler

\* Bounds of the remote data
MaxTree == 2
MaxRuns == 2

\* --- responses and messages

HandlerSuccess(fc, em) ==
    [statusCode |-> 200, body |-> [files_content |-> fc, error_message |-> em]]

\* a plausible slip: a failure reported as a success that carries what was
\* gathered so far
HandlerFailurePartial(e) ==
    [statusCode |-> 200, body |-> [files_content |-> files_content, error_message |-> e]]

\* the except branch of lambda_handler: status 500, the failure's message only
HandlerFailure(e) == [statusCode |-> 500, body |-> [error |-> e]]

NoResponse == [statusCode |-> 0, body |-> [error |-> <<>>]]

NoErrorsMessage == <<"No errors found in the latest run's plan or apply output.">>

\* a plausible slip: the generic sentinel used for the empty runs list
NoRunsMessageGeneric == NoErrorsMessage

NoRunsMessage == <<"No runs found for the workspace.">>

\* f"Plan Error:\n{error_lines}"
PlanError(error_lines) == <<"Plan Error:", "\n">> \o error_lines

\* f"Apply Error:\n{error_lines}"
ApplyError(error_lines) == <<"Apply Error:", "\n">> \o error_lines

\* str(e) of the failures the handler can see
HTTPError == <<"HTTPError">>
KeyErrorWorkspaceUrl == <<"'workspace_url'">>
IndexErrorMessage == <<"list index out of range">>
SecretError(outcome) == <<"get_secret: ", outcome>>

\* --- the remote world

\* get_secret: the secret store answers, refuses (ClientError), holds a binary
\* secret (ValueError), or holds a document without the wanted key (KeyError)
SecretOutcomes == {"ok", "client_error", "binary", "no_key"}

MainTf ==
    <<"m", "a", "i", "n", ".", "t", "f">>

VarsTfvars ==
    <<"v", "a", "r", "s", ".", "t", "f", "v", "a", "r", "s">>

MainPy ==
    <<"m", "a", "i", "n", ".", "p", "y">>

EnvTf ==
    <<"e", "n", "v", ".", "t", "f">>

MainTfBak ==
    <<"m", "a", "i", "n", ".", "t", "f", "~">>

\* entries a tree listing can hold: files and directories
TreeEntries ==
    { [type |-> "blob", path |-> MainTf],
      [type |-> "blob", path |-> VarsTfvars],
      [type |-> "blob", path |-> MainPy],
      [type |-> "blob", path |-> MainTfBak],
      [type |-> "tree", path |-> EnvTf] }

Trees == SeqsUpTo(TreeEntries, MaxTree)

\* file_response.text of a path: the repository's contents, opaque to the code
RawContents(path) == <<"contents of ">> \o path

RepoUrl ==
    <<"h", "t", "t", "p", "s", ":", "/", "/", "g", "i", "t", "l", "a", "b", ".", "c", "o", "m", "/", "g", "/", "r">>

Statuses == {"errored", "planning"}

RunRecords == [status : Statuses, relationships : SUBSET {"plan", "apply"}]

NoRun == [status |-> "", relationships |-> {}]

LogWithError == LineOk \o <<"\n">> \o LineUpperError \o <<"\n">> \o LineOk

\* plain-text logs a log-read-url can serve
RunLogs == {<<>>, LineOk, LogWithError}

NoLog == [ok |-> FALSE, text |-> <<>>]

\* a log-read-url answers non-2xx or serves a text
LogResponses == {NoLog} \cup {[ok |-> TRUE, text |-> t] : t \in RunLogs}

\* a plan or an apply as the platform serves it: its details answer non-2xx,
\* or are a document without log-read-url, or one with a log-read-url
SubResources ==
    { [details |-> "http_error", log |-> NoLog], [details |-> "no_log_url", log |-> NoLog] }
        \cup {[details |-> "log_url", log |-> l] : l \in LogResponses}

Platforms == [plan : SubResources, apply : SubResources]

NoPlatform ==
    [plan |-> [details |-> "no_log_url", log |-> NoLog],
     apply |-> [details |-> "no_log_url", log |-> NoLog]]

WsScopedUrl ==
    WorkspaceUrl([prefix |-> PrefixApp, org |-> Acme, ws |-> Prod, run |-> RunOne,
                  run_scoped |-> FALSE])

RunScopedUrl ==
    WorkspaceUrl([prefix |-> PrefixApp, org |-> Acme, ws |-> Prod, run |-> RunOne,
                  run_scoped |-> TRUE])

\* a run-scoped path with an empty last segment: run_id is '' and falsy
EmptyRunUrl ==
    WorkspaceUrl([prefix |-> PrefixApp, org |-> Acme, ws |-> Prod, run |-> <<>>,
                  run_scoped |-> TRUE])

ShortUrl == <<"x">>

\* a key the event does not carry reads as None
Events ==
    [repo_url : {None, <<>>, RepoUrl},
     workspace_url : {None, WsScopedUrl, RunScopedUrl, EmptyRunUrl, ShortUrl}]

\* --- building blocks of the actions

Issue(kind, arg, ok) ==
    requests' = Append(requests, [kind |-> kind, arg |-> arg, ok |-> ok])

Goto(p) ==
    /\ pc' = p
    /\ UNCHANGED <<error_message, response>>

\* an exception reaches lambda_handler's except branch
Fail(e) ==
    /\ pc' = "done"
    /\ response' = HandlerFailure(e)
    /\ UNCHANGED error_message

\* get_latest_run_error returns msg and lambda_handler returns status 200
Return(msg) ==
    /\ pc' = "done"
    /\ error_message' = msg
    /\ response' = HandlerSuccess(files_content, msg)

\* --- Repository Fetcher: fetch_files_from_gitlab

TerraformExtensions ==
    { <<".", "t", "f">>, <<".", "t", "f", "v", "a", "r", "s">> }

\* a plausible slip: the type of the entry is not looked at
IsTerraformPath(item) == \E ext \in TerraformExtensions : EndsWith(item.path, ext)

\* item['type'] == 'blob' and any(item['path'].endswith(ext) for ext in ...)
IsTerraformFile(item) ==
    /\ item.type = "blob"
    /\ \E ext \in TerraformExtensions : EndsWith(item.path, ext)

RECURSIVE NextMatch(_, _)
\* the next entry, from position k on, the loop issues a file request for
NextMatch(t, k) ==
    IF k > Len(t) THEN k
    ELSE IF IsTerraformFile(t[k]) THEN k
    ELSE NextMatch(t, k + 1)

\* f"File: {item['path']}\n" then file_response.text + "\n\n"
Section(path, text) == <<"File: ">> \o path \o <<"\n">> \o text \o <<"\n", "\n">>

\* --- Run Diagnoser: get_latest_run_error, from the run record on

\* a plausible slip: every run that has not been applied is taken as failed
IsNotApplied(status) == status # "applied"

\* run_status == 'errored'
IsErrored(status) == status = "errored"

\* a plausible slip: the plan's error lines do not end the probing
PlanErrorsIgnored(error_lines) == FALSE

\* if error_lines: (after the plan log)
PlanYieldsErrors(error_lines) == error_lines # <<>>

\* if error_lines: (after the apply log)
ApplyYieldsErrors(error_lines) == error_lines # <<>>

\* "If no plan errors, check for apply errors"
ApplyStage(run) ==
    IF "apply" \in run.relationships
    THEN Goto("apply_details")
    ELSE Return(NoErrorsMessage)

\* the status check and the entry of the try block
Diagnose(run) ==
    IF IsErrored(run.status)
    THEN IF "plan" \in run.relationships
         THEN Goto("plan_details")
         ELSE ApplyStage(run)
    ELSE Return(NoErrorsMessage)

\* --- Diagnosis Request Handler: lambda_handler, one action per remote call

StageOneIdle ==
    /\ pc = "idle"
    /\ event = [repo_url |-> None, workspace_url |-> None]
    /\ files_content = <<>>
    /\ bundle = <<>>
    /\ tree = <<>>
    /\ idx = 1
    /\ target = Resolved(None, None, None)
    /\ latest_run = NoRun
    /\ platform = NoPlatform
    /\ requests = <<>>
    /\ error_message = None
    /\ response = NoResponse

InitStageOne ==
    /\ pc = "start"
    /\ event \in Events
    /\ files_content = <<>>
    /\ bundle = <<>>
    /\ tree = <<>>
    /\ idx = 1
    /\ target = Resolved(None, None, None)
    /\ latest_run = NoRun
    /\ platform = NoPlatform
    /\ requests = <<>>
    /\ error_message = None
    /\ response = NoResponse

\* reading the event's fields, up to "if repo_url:"
ReadEvent ==
    /\ pc = "start"
    /\ IF event.workspace_url = None
       THEN Fail(KeyErrorWorkspaceUrl)
       ELSE IF Truthy(event.repo_url)
            THEN Goto("vcs_secret")
            ELSE Goto("tfe_secret")
    /\ UNCHANGED <<event, files_content, bundle, tree, idx, target, latest_run,
                   platform, requests>>
    /\ UNCHANGED <<extractVars, resolveVars, stageTwoVars>>

\* gitlab_token = get_secret(VCS_SECRET_NAME)["token"]
GetVcsSecret ==
    /\ pc = "vcs_secret"
    /\ \E outcome \in SecretOutcomes :
        /\ Issue("secret:vcs", <<>>, outcome = "ok")
        /\ IF outcome = "ok" THEN Goto("tree") ELSE Fail(SecretError(outcome))
    /\ UNCHANGED <<event, files_content, bundle, tree, idx, target, latest_run, platform>>
    /\ UNCHANGED <<extractVars, resolveVars, stageTwoVars>>

\* the tree listing, then the loop up to its first file request
FetchTree ==
    /\ pc = "tree"
    /\ \/ /\ Issue("gitlab:tree", <<>>, FALSE)
          /\ Fail(HTTPError)
          /\ UNCHANGED <<files_content, bundle, tree, idx>>
       \/ \E t \in Trees :
            /\ Issue("gitlab:tree", <<>>, TRUE)
            /\ tree' = t
            /\ bundle' = <<>>
            /\ idx' = NextMatch(t, 1)
            /\ IF NextMatch(t, 1) > Len(t)
               THEN /\ files_content' = <<>>
                    /\ Goto("tfe_secret")
               ELSE /\ UNCHANGED files_content
                    /\ Goto("file")
    /\ UNCHANGED <<event, target, latest_run, platform>>
    /\ UNCHANGED <<extractVars, resolveVars, stageTwoVars>>

\* one raw-file request, then the loop up to the next one or to the return
FetchFile ==
    /\ pc = "file"
    /\ \/ /\ Issue("gitlab:file", tree[idx].path, FALSE)
          /\ Fail(HTTPError)
          /\ UNCHANGED <<files_content, bundle, idx>>
       \/ /\ Issue("gitlab:file", tree[idx].path, TRUE)
          /\ bundle' = bundle \o Section(tree[idx].path, RawContents(tree[idx].path))
          /\ idx' = NextMatch(tree, idx + 1)
          /\ IF NextMatch(tree, idx + 1) > Len(tree)
             THEN /\ files_content' = bundle'
                  /\ Goto("tfe_secret")
             ELSE /\ UNCHANGED files_content
                  /\ Goto("file")
    /\ UNCHANGED <<event, tree, target, latest_run, platform>>
    /\ UNCHANGED <<extractVars, resolveVars, stageTwoVars>>

\* tfe_api_token = get_secret(...)["tfe_api_token"], the Identifier Resolver,
\* and "if run_id:"; the locals of the Repository Fetcher are gone
GetTfeSecret ==
    /\ pc = "tfe_secret"
    /\ bundle' = <<>>
    /\ tree' = <<>>
    /\ idx' = 1
    /\ \E outcome \in SecretOutcomes :
        /\ Issue("secret:tfe", <<>>, outcome = "ok")
        /\ IF outcome # "ok"
           THEN /\ Fail(SecretError(outcome))
                /\ UNCHANGED target
           ELSE LET r == get_workspace_id_from_url(event.workspace_url)
                IN IF r.raised # ""
                   THEN /\ Fail(IndexErrorMessage)
                        /\ UNCHANGED target
                   ELSE /\ target' = r
                        /\ IF Truthy(r.run_id)
                           THEN Goto("run_by_id")
                           ELSE Goto("workspace")
    /\ UNCHANGED <<event, files_content, latest_run, platform>>
    /\ UNCHANGED <<extractVars, resolveVars, stageTwoVars>>

\* GET /runs/{run_id}, then the status check
FetchRunById ==
    /\ pc = "run_by_id"
    /\ \/ /\ Issue("tfe:run", target.run_id, FALSE)
          /\ Fail(HTTPError)
          /\ UNCHANGED <<latest_run, platform>>
       \/ \E run \in RunRecords, p \in Platforms :
            /\ Issue("tfe:run", target.run_id, TRUE)
            /\ latest_run' = run
            /\ platform' = p
            /\ Diagnose(run)
    /\ UNCHANGED <<event, files_content, bundle, tree, idx, target>>
    /\ UNCHANGED <<extractVars, resolveVars, stageTwoVars>>

\* GET /organizations/{org}/workspaces/{name}
FetchWorkspace ==
    /\ pc = "workspace"
    /\ \E ok \in BOOLEAN :
        /\ Issue("tfe:workspace", target.workspace_name, ok)
        /\ IF ok THEN Goto("runs") ELSE Fail(HTTPError)
    /\ UNCHANGED <<event, files_content, bundle, tree, idx, target, latest_run, platform>>
    /\ UNCHANGED <<extractVars, resolveVars, stageTwoVars>>

\* if not runs_data:
RunsListEmpty(runs_data) == runs_data = <<>>

\* GET /workspaces/{id}/runs, the empty-list return, latest_run = runs_data[0],
\* then the status check
FetchRuns ==
    /\ pc = "runs"
    /\ \/ /\ Issue("tfe:runs", <<>>, FALSE)
          /\ Fail(HTTPError)
          /\ UNCHANGED <<latest_run, platform>>
       \/ \E runs_data \in SeqsUpTo(RunRecords, MaxRuns), p \in Platforms :
            IF RunsListEmpty(runs_data)
            THEN /\ Issue("tfe:runs", <<"empty list">>, TRUE)
                 /\ Return(NoRunsMessage)
                 /\ UNCHANGED <<latest_run, platform>>
            ELSE /\ Issue("tfe:runs", <<"runs">>, TRUE)
                 /\ latest_run' = runs_data[1]
                 /\ platform' = p
                 /\ Diagnose(runs_data[1])
    /\ UNCHANGED <<event, files_content, bundle, tree, idx, target>>
    /\ UNCHANGED <<extractVars, resolveVars, stageTwoVars>>

\* GET /plans/{plan_id}; a failure ends in the except branches of the try
FetchPlanDetails ==
    /\ pc = "plan_details"
    /\ Issue("tfe:plan", <<>>, platform.plan.details # "http_error")
    /\ IF platform.plan.details = "http_error"
       THEN Return(NoErrorsMessage)
       ELSE IF platform.plan.details = "log_url"
            THEN Goto("plan_log")
            ELSE ApplyStage(latest_run)
    /\ UNCHANGED <<event, files_content, bundle, tree, idx, target, latest_run, platform>>
    /\ UNCHANGED <<extractVars, resolveVars, stageTwoVars>>

\* GET log-read-url of the plan, the extraction, "Plan Error" or the apply
FetchPlanLog ==
    /\ pc = "plan_log"
    /\ Issue("tfe:plan_log", <<>>, platform.plan.log.ok)
    /\ IF ~platform.plan.log.ok
       THEN Return(NoErrorsMessage)
       ELSE LET error_lines ==
                    extract_error_with_context(platform.plan.log.text, DefaultContextLines)
            IN IF PlanYieldsErrors(error_lines)
               THEN Return(PlanError(error_lines))
               ELSE ApplyStage(latest_run)
    /\ UNCHANGED <<event, files_content, bundle, tree, idx, target, latest_run, platform>>
    /\ UNCHANGED <<extractVars, resolveVars, stageTwoVars>>

\* GET /applies/{apply_id}
FetchApplyDetails ==
    /\ pc = "apply_details"
    /\ Issue("tfe:apply", <<>>, platform.apply.details # "http_error")
    /\ IF platform.apply.details = "log_url"
       THEN Goto("apply_log")
       ELSE Return(NoErrorsMessage)
    /\ UNCHANGED <<event, files_content, bundle, tree, idx, target, latest_run, platform>>
    /\ UNCHANGED <<extractVars, resolveVars, stageTwoVars>>

\* GET log-read-url of the apply, the extraction, "Apply Error" or the sentinel
FetchApplyLog ==
    /\ pc = "apply_log"
    /\ Issue("tfe:apply_log", <<>>, platform.apply.log.ok)
    /\ IF ~platform.apply.log.ok
       THEN Return(NoErrorsMessage)
       ELSE LET error_lines ==
                    extract_error_with_context(platform.apply.log.text, DefaultContextLines)
            IN IF ApplyYieldsErrors(error_lines)
               THEN Return(ApplyError(error_lines))
               ELSE Return(NoErrorsMessage)
    /\ UNCHANGED <<event, files_content, bundle, tree, idx, target, latest_run, platform>>
    /\ UNCHANGED <<extractVars, resolveVars, stageTwoVars>>

----------------------------------------------------------------------------
\* Stage two: Troubleshooting Request Handler (terraform-troubleshooting.py)

\* entries of the event's parameter list
WorkspaceParam == [is_object |-> TRUE, fields |-> {"name", "value"}, name |-> "workspace_url"]
RepoParam == [is_object |-> TRUE, fields |-> {"name", "value"}, name |-> "repo_url"]
NamelessParam == [is_object |-> TRUE, fields |-> {"value"}, name |-> ""]
ValuelessParam == [is_object |-> TRUE, fields |-> {"name"}, name |-> "branch_name"]
StringParam == [is_object |-> FALSE, fields |-> {}, name |-> ""]

\* the parameter lists an event can carry
ParameterLists ==
    { <<>>, <<WorkspaceParam>>, <<WorkspaceParam, RepoParam>>, <<NamelessParam>>,
      <<WorkspaceParam, ValuelessParam>>, <<StringParam>> }

\* event.get('parameters', {}): the key may be absent, which reads as {}
ParameterValues ==
    {[present |-> FALSE, items |-> <<>>]}
        \cup {[present |-> TRUE, items |-> l] : l \in ParameterLists}

EventKeys == {"agent", "actionGroup", "function", "messageVersion"}

StageTwoEvents == [keys : SUBSET EventKeys, parameters : ParameterValues]

\* a key of the stage-one body that is not there
Absent == <<"absent">>

SomeBundle == Section(MainTf, RawContents(MainTf))

\* what lambda_client.invoke gives: a ClientError, or a Payload that is not
\* JSON, is JSON but no object, is an object without 'body', has a body that
\* is not JSON, has a body that is a JSON list, or has a body that is an object
InvokeReplies ==
    { [kind |-> k, files_content |-> Absent, error_message |-> Absent] :
          k \in {"client_error", "payload_not_json", "payload_not_object", "payload_without_body",
                 "body_not_json", "body_list"} }
    \cup [kind : {"body_object"},
          files_content : {Absent, None, <<>>, SomeBundle},
          error_message : {Absent, None, NoErrorsMessage}]

NoReply == [kind |-> "", files_content |-> Absent, error_message |-> Absent]

\* what bedrock.invoke_model gives: a ClientError, or a body that is not JSON,
\* has no 'content', an empty 'content', a first content item without 'text',
\* or the generated text
BedrockReplies == {"client_error", "not_json", "no_content", "empty_content", "no_text", "ok"}

TroubleshootingSteps == <<"troubleshooting steps">>

\* the envelope the agent framework expects
Envelope(body) ==
    [response |->
        [actionGroup |-> "actionGroup", function |-> "function",
         functionResponse |-> [responseBody |-> [TEXT |-> [body |-> body]]]],
     messageVersion |-> "messageVersion"]

Returned(envelope) == [raised |-> "", value |-> envelope]

\* an exception leaves lambda_handler
Raised(exception) == [raised |-> exception, value |-> Envelope(<<>>)]

NoResult == [raised |-> "", value |-> Envelope(<<>>)]

\* final_response = {..., 'messageVersion': event['messageVersion']}
FinalResponse(ev, body) ==
    IF "messageVersion" \in ev.keys
    THEN Returned(Envelope(body))
    ELSE Raised("KeyError: 'messageVersion'")

\* except KeyError as ke: body f"Missing required information: {str(ke)}"
OnKeyError(ev, detail) == FinalResponse(ev, <<"Missing required information: ", detail>>)

\* except Exception as e: body f"Error: {str(e)}"
OnException(ev, message) == FinalResponse(ev, <<"Error: ", message>>)

RECURSIVE PropertiesLoop(_, _)
\* {param["name"]: param["value"] for param in parameters}: "" when it
\* completes, else TypeError or the str() of the KeyError of the first entry
\* that cannot be read
PropertiesLoop(parameters, k) ==
    IF k > Len(parameters) THEN ""
    ELSE IF ~parameters[k].is_object THEN "TypeError"
    ELSE IF "name" \notin parameters[k].fields THEN "'name'"
    ELSE IF "value" \notin parameters[k].fields THEN "'value'"
    ELSE PropertiesLoop(parameters, k + 1)

PropertiesError(parameters) ==
    IF ~parameters.present THEN "" ELSE PropertiesLoop(parameters.items, 1)

\* response_body.get('error_message')
GetErrorMessage(reply) ==
    IF reply.error_message = Absent THEN None ELSE reply.error_message

\* response_body.get('files_content', '')
GetFilesContent(reply) ==
    IF reply.files_content = Absent THEN <<>> ELSE reply.files_content

\* error_message is None and repo_files_content == ''
NothingReceived(reply) == GetErrorMessage(reply) = None /\ GetFilesContent(reply) = <<>>

StageTwoIdle ==
    /\ s2pc = "idle"
    /\ s2event = [keys |-> EventKeys, parameters |-> [present |-> FALSE, items |-> <<>>]]
    /\ s2reply = NoReply
    /\ s2bedrock = ""
    /\ s2result = NoResult

InitStageTwo ==
    /\ s2pc = "start"
    /\ s2event \in StageTwoEvents
    /\ s2reply = NoReply
    /\ s2bedrock = ""
    /\ s2result = NoResult

S2Finish(result) ==
    /\ s2pc' = "done"
    /\ s2result' = result

S2Goto(p) ==
    /\ s2pc' = p
    /\ UNCHANGED s2result

\* event['agent'], event['actionGroup'], event['function'] before the try,
\* then the properties and the payload inside it
S2ReadEvent ==
    /\ s2pc = "start"
    /\ IF "agent" \notin s2event.keys THEN S2Finish(Raised("KeyError: 'agent'"))
       ELSE IF "actionGroup" \notin s2event.keys THEN S2Finish(Raised("KeyError: 'actionGroup'"))
       ELSE IF "function" \notin s2event.keys THEN S2Finish(Raised("KeyError: 'function'"))
       ELSE IF PropertiesError(s2event.parameters) = "" THEN S2Goto("invoke")
       ELSE IF PropertiesError(s2event.parameters) = "TypeError"
            THEN S2Finish(OnException(s2event, "TypeError"))
       ELSE S2Finish(OnKeyError(s2event, PropertiesError(s2event.parameters)))
    /\ UNCHANGED <<s2event, s2reply, s2bedrock>>
    /\ UNCHANGED <<extractVars, resolveVars, stageOneVars>>

\* lambda_client.invoke, the two json.loads, and the missing-data check
S2InvokeStageOne ==
    /\ s2pc = "invoke"
    /\ \E reply \in InvokeReplies :
        /\ s2reply' = reply
        /\ IF reply.kind = "client_error" THEN S2Finish(OnException(s2event, "ClientError"))
           ELSE IF reply.kind \in {"payload_not_json", "body_not_json"}
                THEN S2Finish(OnException(s2event, "JSONDecodeError"))
           ELSE IF reply.kind = "payload_not_object"
                THEN S2Finish(OnException(s2event, "TypeError"))
           ELSE IF reply.kind = "payload_without_body"
                THEN S2Finish(OnKeyError(s2event, "'body'"))
           ELSE IF reply.kind = "body_list"
                THEN S2Finish(OnException(s2event, "AttributeError"))
           ELSE IF NothingReceived(reply)
                THEN S2Finish(OnKeyError(s2event,
                        "Neither 'files_content' nor 'error_message' were found in the response from Lambda 2"))
           ELSE S2Goto("bedrock")
    /\ UNCHANGED <<s2event, s2bedrock>>
    /\ UNCHANGED <<extractVars, resolveVars, stageOneVars>>

\* invoke_bedrock_model (it logs and re-raises), then the final response
S2InvokeBedrock ==
    /\ s2pc = "bedrock"
    /\ \E reply \in BedrockReplies :
        /\ s2bedrock' = reply
        /\ IF reply = "client_error" THEN S2Finish(OnException(s2event, "ClientError"))
           ELSE IF reply = "not_json" THEN S2Finish(OnException(s2event, "JSONDecodeError"))
           ELSE IF reply = "no_content" THEN S2Finish(OnKeyError(s2event, "'content'"))
           ELSE IF reply = "empty_content" THEN S2Finish(OnException(s2event, "IndexError"))
           ELSE IF reply = "no_text" THEN S2Finish(OnKeyError(s2event, "'text'"))
           ELSE IF "messageVersion" \in s2event.keys
                THEN S2Finish(Returned(Envelope(TroubleshootingSteps)))
           ELSE S2Finish(OnKeyError(s2event, "'messageVersion'"))
    /\ UNCHANGED <<s2event, s2reply>>
    /\ UNCHANGED <<extractVars, resolveVars, stageOneVars>>

NextStageTwo ==
    \/ S2ReadEvent
    \/ S2InvokeStageOne
    \/ S2InvokeBedrock

InitStageTwoOnly ==
    /\ InitStageTwo
    /\ ExtractIdle
    /\ ResolveIdle
    /\ StageOneIdle

SpecStageTwo == InitStageTwoOnly /\ [][NextStageTwo]_vars

----------------------------------------------------------------------------
\* Specifications

Next ==
    \/ ReadEvent
    \/ GetVcsSecret
    \/ FetchTree
    \/ FetchFile
    \/ GetTfeSecret
    \/ FetchRunById
    \/ FetchWorkspace
    \/ FetchRuns
    \/ FetchPlanDetails
    \/ FetchPlanLog
    \/ FetchApplyDetails
    \/ FetchApplyLog

Init ==
    /\ InitStageOne
    /\ ExtractIdle
    /\ ResolveIdle
    /\ StageTwoIdle

\* stage one
Spec == Init /\ [][Next]_vars

NextExtract == Extract

\* the Log Error Extractor on its own
InitExtractOnly ==
    /\ InitExtract
    /\ ResolveIdle
    /\ StageOneIdle
    /\ StageTwoIdle

SpecExtract == InitExtractOnly /\ [][NextExtract]_vars

NextResolve == Resolve

\* the Identifier Resolver on its own
InitResolveOnly ==
    /\ InitResolve
    /\ ExtractIdle
    /\ StageOneIdle
    /\ StageTwoIdle

SpecResolve == InitResolveOnly /\ [][NextResolve]_vars

----------------------------------------------------------------------------
\* Claims about the Log Error Extractor (SpecExtract)

\* the structured marker as section 4.3 of the specification words it
SpecMarker ==
    <<"\"", "l", "e", "v", "e", "l", "\"", ":", "\"", "e", "r", "r", "o", "r", "\"">>

RefMarking(line, markers) == \E m \in markers : Contains(Lower(line), m)

RECURSIVE Flatten(_)
Flatten(blocks) == IF blocks = <<>> THEN <<>> ELSE Head(blocks) \o Flatten(Tail(blocks))

\* The reference function: one block per marking line, in order; the block of
\* the marking line at 0-based index i holds lines [i, min(i+window+1, end))
\* and then one blank separator line; blocks are not deduplicated.
RefLines(lines, window, markers) ==
    LET n == Len(lines)
        IsMarkingAt(k) == RefMarking(lines[k], markers)
        marking == SelectSeq([k \in 1..n |-> k], IsMarkingAt)
        Block(k) == [t \in 1..(Min(k + window, n) - k + 1) |-> lines[k + t - 1]] \o << <<>> >>
    IN Flatten([j \in 1..Len(marking) |-> Block(marking[j])])

RefExtract(text, window, markers) == Join(RefLines(SplitLines(text), window, markers), <<"\n">>)

NoMarkingLine(text, markers) ==
    \A k \in 1..Len(SplitLines(text)) : ~RefMarking(SplitLines(text)[k], markers)

\* C5 (as amended): extract_error_with_context equals the reference function
\* for every log text and window, where a line is error-marking iff,
\* case-insensitively, it contains "@level":"error" or error: ; the result is
\* empty when no line is marking; and for the 7-line log whose only marking
\* line is line 1, with window 5, the output is exactly lines 1-6 and the
\* blank separator, without line 7.
C5_ExtractMatchesReference ==
    xpc = "done" =>
        /\ extracted = RefExtract(log_content, context_lines, {KwLevel, KwError})
        /\ (NoMarkingLine(log_content, {KwLevel, KwError}) => extracted = <<>>)
        /\ (log_content = SevenLineLog /\ context_lines = DefaultContextLines
                => extracted = SubSeq(SevenLineLog, 1, Len(SevenLineLog) - 5))

\* C5 as stated: the same, with the structured marker "level":"error"
C5_Original_LevelMarker ==
    xpc = "done" =>
        /\ extracted = RefExtract(log_content, context_lines, {SpecMarker, KwError})
        /\ (NoMarkingLine(log_content, {SpecMarker, KwError}) => extracted = <<>>)

\* two marking lines with overlapping windows: lines 2-3 are emitted twice
C5_Witness ==
    /\ xpc = "done"
    /\ context_lines = 2
    /\ log_content = Join(<<LineUpperError, LineAtLevel, LineOk>>, <<"\n">>)
    /\ extracted = Join(<<LineUpperError, LineAtLevel, LineOk, <<>>,
                          LineAtLevel, LineOk, <<>> >>, <<"\n">>)

----------------------------------------------------------------------------
\* Claims about the Identifier Resolver (SpecResolve)

UrlHasRunsSegment(r) ==
    \/ r.org = Runs
    \/ r.ws = Runs
    \/ \E k \in 1..Len(Split(r.prefix, "/")) : Split(r.prefix, "/")[k] = Runs

\* C6 (as amended): a run-scoped URL .../organizations/ORG/workspaces/WS/runs/RUN
\* resolves to (WS, ORG, RUN) for every choice of non-empty segments; a
\* workspace-scoped URL .../organizations/ORG/workspaces/WS resolves to
\* (WS, ORG, None) provided no segment of it is the literal runs.
C6_ResolverPositions ==
    rpc = "done" =>
        /\ (ref.run_scoped => resolved = Resolved(ref.ws, ref.org, ref.run))
        /\ (~ref.run_scoped /\ ~UrlHasRunsSegment(ref)
                => resolved = Resolved(ref.ws, ref.org, None))

\* C6 as stated: every workspace-scoped URL resolves to (WS, ORG, None)
C6_Original_EveryChoice ==
    rpc = "done" =>
        /\ (ref.run_scoped => resolved = Resolved(ref.ws, ref.org, ref.run))
        /\ (~ref.run_scoped => resolved = Resolved(ref.ws, ref.org, None))

\* a run-scoped URL has been resolved
C6_Witness ==
    /\ rpc = "done"
    /\ ref.run_scoped
    /\ ref.prefix = PrefixApp
    /\ resolved = Resolved(Prod, Acme, RunOne)

----------------------------------------------------------------------------
\* Claims about stage one (Spec)

Issued(kind) == \E k \in 1..Len(requests) : requests[k].kind = kind

PlanKinds == {"tfe:plan", "tfe:plan_log"}
ApplyKinds == {"tfe:apply", "tfe:apply_log"}
LocatorKinds == {"tfe:run", "tfe:workspace", "tfe:runs"}
RequiredKinds == {"secret:vcs", "gitlab:tree", "gitlab:file", "secret:tfe"} \cup LocatorKinds

\* the Run Diagnoser has a run record whose status is errored
ErroredRun == latest_run # NoRun /\ latest_run.status = "errored"

\* the error lines a log response holds, by the reference function
LinesOf(log) == RefExtract(log.text, DefaultContextLines, {KwLevel, KwError})

\* fetching the plan details or the plan log fails with an HTTP error
PlanFetchFails ==
    /\ "plan" \in latest_run.relationships
    /\ \/ platform.plan.details = "http_error"
       \/ platform.plan.details = "log_url" /\ ~platform.plan.log.ok

\* the plan log is served and holds error lines
PlanHasErrorLines ==
    /\ "plan" \in latest_run.relationships
    /\ platform.plan.details = "log_url"
    /\ platform.plan.log.ok
    /\ LinesOf(platform.plan.log) # <<>>

\* no plan relationship, no log-read-url, or an empty extraction
PlanYieldsNothing ==
    \/ "plan" \notin latest_run.relationships
    \/ platform.plan.details = "no_log_url"
    \/ /\ platform.plan.details = "log_url"
       /\ platform.plan.log.ok
       /\ LinesOf(platform.plan.log) = <<>>

\* the apply log is served and holds error lines
ApplyHasErrorLines ==
    /\ "apply" \in latest_run.relationships
    /\ platform.apply.details = "log_url"
    /\ platform.apply.log.ok
    /\ LinesOf(platform.apply.log) # <<>>

\* C1: for an errored run, an HTTP failure while fetching the plan details or
\* the plan log does not abort the diagnosis: the apply is still probed, and
\* when the apply log holds an error-marking line the result is
\* "Apply Error:\n<lines>".
C1_PlanFailureStillProbesApply ==
    (pc = "done" /\ ErroredRun /\ PlanFetchFails /\ ApplyHasErrorLines) =>
        /\ Issued("tfe:apply")
        /\ error_message = <<"Apply Error:", "\n">> \o LinesOf(platform.apply.log)

\* C2: for an errored run the plan is probed before the apply and takes
\* priority: error lines in the plan log give "Plan Error:\n<lines>" and no
\* apply request is ever issued; the apply is probed only if the plan yields
\* nothing (no plan relationship, no log-read-url, empty extraction), and
\* then error lines in the apply log give "Apply Error:\n<lines>".
C2_PlanBeforeApply ==
    ErroredRun =>
        /\ \A i, j \in 1..Len(requests) :
              requests[i].kind \in ApplyKinds /\ requests[j].kind \in PlanKinds => j < i
        /\ (PlanHasErrorLines => \A k \in 1..Len(requests) : requests[k].kind \notin ApplyKinds)
        /\ ((\E k \in 1..Len(requests) : requests[k].kind \in ApplyKinds) => PlanYieldsNothing)
        /\ (pc = "done" /\ PlanHasErrorLines
                => error_message = <<"Plan Error:", "\n">> \o LinesOf(platform.plan.log))
        /\ (pc = "done" /\ PlanYieldsNothing /\ "apply" \in latest_run.relationships
                => Issued("tfe:apply"))
        /\ (pc = "done" /\ PlanYieldsNothing /\ ApplyHasErrorLines
                => error_message = <<"Apply Error:", "\n">> \o LinesOf(platform.apply.log))

\* both logs hold error lines; the plan's are reported
C2_Witness ==
    /\ pc = "done"
    /\ ErroredRun
    /\ PlanHasErrorLines
    /\ ApplyHasErrorLines
    /\ error_message = <<"Plan Error:", "\n">> \o LineUpperError \o <<"\n">> \o LineOk \o <<"\n">>

\* C7: lambda_handler returns one of two shapes and never a partial success:
\* status 200 with files_content and error_message (a string), only when
\* every required step succeeded (VCS secret and Repository Fetcher when
\* repo_url is given, platform secret, Identifier Resolver, Run Locator
\* lookups); or status 500 with the failure's message only.
C7_TwoResponseShapes ==
    pc = "done" =>
        \/ /\ response.statusCode = 200
           /\ DOMAIN response.body = {"files_content", "error_message"}
           /\ response.body.error_message # None
           /\ response.body.error_message # <<>>
           /\ \A k \in 1..Len(requests) :
                 requests[k].kind \in RequiredKinds => requests[k].ok
           /\ (Truthy(event.repo_url) => Issued("secret:vcs") /\ Issued("gitlab:tree"))
           /\ Issued("secret:tfe")
           /\ get_workspace_id_from_url(event.workspace_url).raised = ""
           /\ (Issued("tfe:run") \/ (Issued("tfe:workspace") /\ Issued("tfe:runs")))
        \/ /\ response.statusCode = 500
           /\ DOMAIN response.body = {"error"}

\* a second file fetch fails after a first one succeeded: status 500
C7_Witness ==
    /\ pc = "done"
    /\ response.statusCode = 500
    /\ Len(requests) = 4
    /\ requests[3].kind = "gitlab:file" /\ requests[3].ok
    /\ requests[4].kind = "gitlab:file" /\ ~requests[4].ok

\* C8: when the located run's status is not errored, the result is the fixed
\* sentinel and no plan-details, apply-details or log request is issued.
C8_NotErroredNoProbe ==
    (latest_run # NoRun /\ latest_run.status # "errored") =>
        /\ pc = "done"
        /\ error_message = <<"No errors found in the latest run's plan or apply output.">>
        /\ response.statusCode = 200
        /\ response.body.error_message = error_message
        /\ \A k \in 1..Len(requests) : requests[k].kind \notin (PlanKinds \cup ApplyKinds)

\* a planning run that has both a plan and an apply
C8_Witness ==
    /\ pc = "done"
    /\ latest_run = [status |-> "planning", relationships |-> {"plan", "apply"}]
    /\ error_message = NoErrorsMessage

\* the runs listing answered with an empty list
EmptyRunsListing(k) ==
    requests[k].kind = "tfe:runs" /\ requests[k].ok /\ requests[k].arg = <<"empty list">>

\* C9: without a run id, when the workspace lookup and the runs listing both
\* succeed and the list is empty, the result is the literal "No runs found
\* for the workspace.", returned as a normal value, and no remote call
\* follows the runs listing.
C9_NoRunsSentinel ==
    \A k \in 1..Len(requests) :
        EmptyRunsListing(k) =>
            /\ k = Len(requests)
            /\ k > 1
            /\ requests[k - 1].kind = "tfe:workspace" /\ requests[k - 1].ok
            /\ pc = "done"
            /\ error_message = <<"No runs found for the workspace.">>
            /\ response.statusCode = 200
            /\ response.body.error_message = <<"No runs found for the workspace.">>

\* the handler returned after an empty runs listing
C9_Witness ==
    /\ pc = "done"
    /\ Len(requests) > 0
    /\ EmptyRunsListing(Len(requests))
    /\ ~Truthy(target.run_id)
    /\ response.statusCode = 200

\* a regular file whose path ends in .tf or .tfvars
RefTerraformFile(item) ==
    /\ item.type = "blob"
    /\ \/ Len(item.path) >= 3
          /\ SubSeq(item.path, Len(item.path) - 2, Len(item.path)) = <<".", "t", "f">>
       \/ Len(item.path) >= 7
          /\ SubSeq(item.path, Len(item.path) - 6, Len(item.path))
                = <<".", "t", "f", "v", "a", "r", "s">>

\* one section "File: <path>\n<raw contents>\n\n" per matching entry, in order
RefBundle(t) ==
    LET matching == SelectSeq(t, RefTerraformFile)
    IN Flatten([k \in 1..Len(matching) |->
                  <<"File: ">> \o matching[k].path \o <<"\n">>
                      \o RawContents(matching[k].path) \o <<"\n", "\n">>])

GitlabRequests == SelectSeq(requests, LAMBDA r : r.kind \in {"gitlab:tree", "gitlab:file"})

\* C10: fetch_files_from_gitlab returns a bundle only when the listing and
\* every file fetch succeeded; the bundle has exactly one section per blob
\* whose path ends in .tf or .tfvars, in listing order, and none for any other
\* entry; if the listing or any file fetch fails the call fails and no
\* partial bundle is returned.
C10_BundleAllOrNothing ==
    /\ (pc = "tfe_secret" /\ Truthy(event.repo_url)) =>
          /\ files_content = RefBundle(tree)
          /\ \A k \in 1..Len(GitlabRequests) : GitlabRequests[k].ok
          /\ [k \in 1..(Len(GitlabRequests) - 1) |-> GitlabRequests[k + 1].arg]
                = [k \in 1..Len(SelectSeq(tree, RefTerraformFile)) |->
                      SelectSeq(tree, RefTerraformFile)[k].path]
    /\ (\E k \in 1..Len(GitlabRequests) : ~GitlabRequests[k].ok) =>
          /\ pc = "done"
          /\ files_content = <<>>
          /\ response.statusCode = 500
          /\ "files_content" \notin DOMAIN response.body

\* a listing with main.tf and main.py: one section, for main.tf
C10_Witness ==
    /\ pc = "tfe_secret"
    /\ tree = << [type |-> "blob", path |-> MainTf], [type |-> "blob", path |-> MainPy] >>
    /\ files_content = <<"File: ">> \o MainTf \o <<"\n">> \o RawContents(MainTf) \o <<"\n", "\n">>

----------------------------------------------------------------------------
\* Claims about stage two (SpecStageTwo)

WellFormedEnvelope(e) ==
    /\ DOMAIN e = {"response", "messageVersion"}
    /\ DOMAIN e.response = {"actionGroup", "function", "functionResponse"}
    /\ DOMAIN e.response.functionResponse = {"responseBody"}
    /\ DOMAIN e.response.functionResponse.responseBody = {"TEXT"}
    /\ DOMAIN e.response.functionResponse.responseBody.TEXT = {"body"}

\* C3: the stage-two lambda_handler never lets a failure escape: for every
\* event and every failure point it returns a well-formed envelope instead
\* of raising.
C3_NeverRaises ==
    s2pc = "done" => s2result.raised = "" /\ WellFormedEnvelope(s2result.value)

BodyOf(result) == result.value.response.functionResponse.responseBody.TEXT.body

\* the remote call returned a result with neither a non-empty files_content
\* nor a non-absent error_message
MissingData ==
    /\ s2reply.kind = "body_object"
    /\ s2reply.files_content \in {Absent, None, <<>>}
    /\ s2reply.error_message \in {Absent, None}

\* C4: the envelope body begins with "Missing required information" exactly
\* when the remote call's result has neither a non-empty files_content nor a
\* non-absent error_message; every other failure yields "Error: <message>".
C4_FailureKindDecidesBody ==
    (s2pc = "done" /\ s2result.raised = "" /\ BodyOf(s2result) # TroubleshootingSteps) =>
        /\ (BodyOf(s2result)[1] = "Missing required information: ") <=> MissingData
        /\ ~MissingData => BodyOf(s2result)[1] = "Error: "

====
